---- MODULE Spec2Model ----
(***************************************************************************)
(* Model of scripts/project_embeddings.py: one run of main().              *)
(*                                                                         *)
(* The run fetches points from Qdrant, projects their vectors to 3D with   *)
(* PCA, clusters the coordinates with DBSCAN, then, record by record,      *)
(* appends an entry to `data` and POSTs a Cypher MATCH..SET statement to   *)
(* Neo4j, and finally dumps `data` as JSON to the output file.             *)
(*                                                                         *)
(* Library calls are modelled by their documented behaviour:               *)
(*   - QdrantClient.scroll raises when the store is unreachable, else      *)
(*     returns a list of points (a point's vector may be None);            *)
(*   - PCA(n_components=3).fit_transform raises ValueError unless the      *)
(*     input is a uniform numeric matrix with min(n_samples, n_features)   *)
(*     >= 3, else returns one row of 3 numbers per sample;                 *)
(*   - DBSCAN.fit raises on invalid eps/min_samples, else returns one      *)
(*     label per row (-1 is noise);                                        *)
(*   - requests.post raises on connection error and on timeout, and        *)
(*     returns normally for every HTTP response, whatever its status;      *)
(*   - open(path, "w") truncates the file; json.dump writes the text chunk *)
(*     by chunk, so an I/O error leaves a prefix of the text in the file.  *)
(***************************************************************************)
EXTENDS Integers, Sequences, FiniteSets, TLC

\* ---------------------------------------------------------------- bounds
MaxPoints == 3
MaxNodes == 2
MaxApply == 2

\* ------------------------------------------------------ program constants
NComponents == 3
NoiseLabel == 0 - 1

\* ------------------------------------------------------------ value pools
\* Point ids stand for distinct Qdrant point ids (uuid strings).
IdPool == 1..MaxPoints
\* A vector is a sequence of numbers; <<>> stands for None (no vector returned).
NoVector == << >>
VectorPool == {NoVector, <<1, 2>>, <<1, 2, 3>>}
\* Rows PCA may return: NComponents numbers each.
Positions == {<<1, 2, 3>>, <<0 - 2, 0, 5>>}
\* Labels DBSCAN may return.
Labels == {NoiseLabel, 0}

Min(a, b) == IF a <= b THEN a ELSE b

SeqsUpTo(S, n) == UNION {[1..k -> S] : k \in 0..n}

Ascending(s) == \A a, b \in DOMAIN s : a < b => s[a] < s[b]

\* Results client.scroll may return: at most `limit` points with distinct
\* ids (Qdrant's scroll returns the points sorted by id).
PointSeqs ==
  {p \in SeqsUpTo([id : IdPool, vector : VectorPool], MaxPoints) :
     Ascending([k \in DOMAIN p |-> p[k].id])}

VARIABLES
  pc,          \* position of main(): start, project, cluster, loop, write, nodata, done, error, sink
  points,      \* result of client.scroll
  ids,         \* [p.id for p in points]
  vecs,        \* [p.vector for p in points]
  coords,      \* reducer.fit_transform(vecs)
  labels,      \* clustering.labels_
  data,        \* list of entries built by the loop
  i,           \* 1-based index of the next zip item
  posts,       \* parameters of the graph writes issued so far, in order
  outcomes,    \* outcome of each graph write issued so far
  graph,       \* Neo4j nodes
  file,        \* file at args.out
  file0,       \* file at args.out before the run
  failedStage, \* stage whose exception ended the run ("none" if no exception)
  stdout,      \* lines printed
  invoked,     \* library calls made after the fetch
  sinkRec,     \* record applied by the stand-alone graph update
  sinkHist,    \* graphs before each stand-alone graph update, oldest first
  sinkCount    \* number of stand-alone graph updates applied

vars == <<pc, points, ids, vecs, coords, labels, data, i, posts, outcomes,
          graph, file, file0, failedStage, stdout, invoked,
          sinkRec, sinkHist, sinkCount>>

sinkVars == <<sinkRec, sinkHist, sinkCount>>

\* ------------------------------------------------------------- JSON text
\* The text json.dump produces, as its sequence of lexemes (commas, colons
\* and blanks carry no information and are left out).
Tok(t, v) == [t |-> t, v |-> v]

RECURSIVE Concat(_)
Concat(ss) == IF Len(ss) = 0 THEN << >> ELSE Head(ss) \o Concat(Tail(ss))

\* A list of numbers: [x, y, z]
EncodeNumList(xs) ==
  <<Tok("[", 0)>> \o [k \in 1..Len(xs) |-> Tok("num", xs[k])] \o <<Tok("]", 0)>>

\* One entry: {"uuid": .., "pos": [..], "cluster": ..}
EncodeEntry(e) ==
  <<Tok("{", 0), Tok("key_uuid", 0), Tok("str", e.uuid), Tok("key_pos", 0)>>
    \o EncodeNumList(e.pos)
    \o <<Tok("key_cluster", 0), Tok("num", e.cluster), Tok("}", 0)>>

\* Mutant: json.dump(entry, f), the last entry instead of the whole list.
JsonDumpLastEntry(d) ==
  <<Tok("[", 0)>> \o (IF Len(d) = 0 THEN << >> ELSE EncodeEntry(d[Len(d)])) \o <<Tok("]", 0)>>

\* json.dump(data, f): the whole text
JsonDump(d) ==
  <<Tok("[", 0)>> \o Concat([k \in 1..Len(d) |-> EncodeEntry(d[k])]) \o <<Tok("]", 0)>>

\* Parser used to read a snapshot back (json.load): a recursive-descent
\* reader of the lexeme sequence.  Result: [ok, val, rest].
ParseFail == [ok |-> FALSE, val |-> << >>, rest |-> << >>]

RECURSIVE ParseNums(_, _)
ParseNums(toks, acc) ==
  IF Len(toks) = 0 THEN ParseFail
  ELSE IF Head(toks).t = "]" THEN [ok |-> TRUE, val |-> acc, rest |-> Tail(toks)]
  ELSE IF Head(toks).t = "num" THEN ParseNums(Tail(toks), Append(acc, Head(toks).v))
  ELSE ParseFail

ParseNumList(toks) ==
  IF Len(toks) = 0 \/ Head(toks).t # "[" THEN ParseFail
  ELSE ParseNums(Tail(toks), << >>)

ParseObject(toks) ==
  IF Len(toks) < 5 THEN ParseFail
  ELSE IF ~(toks[1].t = "{" /\ toks[2].t = "key_uuid" /\ toks[3].t = "str"
            /\ toks[4].t = "key_pos") THEN ParseFail
  ELSE LET p == ParseNumList(SubSeq(toks, 5, Len(toks)))
       IN IF ~p.ok \/ Len(p.rest) < 3 THEN ParseFail
          ELSE IF ~(p.rest[1].t = "key_cluster" /\ p.rest[2].t = "num"
                    /\ p.rest[3].t = "}") THEN ParseFail
          ELSE [ok |-> TRUE,
                val |-> <<[uuid |-> toks[3].v, pos |-> p.val, cluster |-> p.rest[2].v]>>,
                rest |-> SubSeq(p.rest, 4, Len(p.rest))]

RECURSIVE ParseObjects(_, _)
ParseObjects(toks, acc) ==
  IF Len(toks) = 0 THEN ParseFail
  ELSE IF Head(toks).t = "]"
       THEN [ok |-> Len(toks) = 1, val |-> acc, rest |-> Tail(toks)]
  ELSE LET o == ParseObject(toks)
       IN IF ~o.ok THEN ParseFail ELSE ParseObjects(o.rest, acc \o o.val)

JsonLoad(toks) ==
  IF Len(toks) = 0 \/ Head(toks).t # "[" THEN ParseFail
  ELSE ParseObjects(Tail(toks), << >>)

\* ------------------------------------------------------------ the file
NoFile == [exists |-> FALSE, content |-> << >>]
\* A snapshot left by an earlier run (its record has an id no point of this run has).
OldFile ==
  [exists |-> TRUE,
   content |-> JsonDump(<<[uuid |-> 0, pos |-> <<7, 7, 7>>, cluster |-> 9]>>)]

\* ------------------------------------------------------------ the graph
UnsetProp == << >>

\* MATCH (i:Impression {uuid:$id})
Matches(node, id) == node.label = "Impression" /\ node.uuid = id

\* Mutant: the position is appended to the stored list instead of replacing it.
GraphUpdateAppend(g, params) ==
  [k \in DOMAIN g |->
     IF Matches(g[k], params.id)
     THEN [g[k] EXCEPT !.embedding3d = g[k].embedding3d \o params.pos,
                       !.cluster = <<params.cluster>>]
     ELSE g[k]]

\* Mutant: MATCH (i:Impression) without the uuid filter.
GraphUpdateAllNodes(g, params) ==
  [k \in DOMAIN g |->
     IF g[k].label = "Impression"
     THEN [g[k] EXCEPT !.embedding3d = params.pos, !.cluster = <<params.cluster>>]
     ELSE g[k]]

\* MATCH (i:Impression {uuid:$id}) SET i.embedding3d=$pos, i.cluster=$cluster
GraphUpdate(g, params) ==
  [k \in DOMAIN g |->
     IF Matches(g[k], params.id)
     THEN [g[k] EXCEPT !.embedding3d = params.pos, !.cluster = <<params.cluster>>]
     ELSE g[k]]

\* The graph of a run: Impression nodes with uuids 1..MaxNodes, properties unset.
MainGraph ==
  [k \in 1..MaxNodes |->
     [label |-> "Impression", uuid |-> k, embedding3d |-> UnsetProp,
      cluster |-> UnsetProp, name |-> k]]

\* ------------------------------------------------------- pipeline pieces
\* Mutant: `if points is None`, which a list never is.
NoDataIsNone(pts) == FALSE

\* `if not points`
NoData(pts) == Len(pts) = 0

\* Mutant: PCA(n_components=2).
PCAFailsTwoComponents(vs) ==
  \/ \E k \in DOMAIN vs : vs[k] = NoVector
  \/ \E a, b \in DOMAIN vs : Len(vs[a]) # Len(vs[b])
  \/ Len(vs) = 0
  \/ 2 > Min(Len(vs), Len(vs[1]))

\* PCA(n_components=3).fit_transform(vecs) raises ValueError
PCAFails(vs) ==
  \/ \E k \in DOMAIN vs : vs[k] = NoVector
  \/ \E a, b \in DOMAIN vs : Len(vs[a]) # Len(vs[b])
  \/ Len(vs) = 0
  \/ NComponents > Min(Len(vs), Len(vs[1]))

\* zip(ids, coords, labels) stops at the shortest sequence
ZipLen(a, b, c) == Min(Len(a), Min(Len(b), Len(c)))

\* entry = {"uuid": pid, "pos": pos.tolist(), "cluster": int(lbl)}
Entry(pid, pos, lbl) == [uuid |-> pid, pos |-> pos, cluster |-> lbl]

\* Mutant: data.insert(0, entry)
InsertEntryFirst(d, e) == <<e>> \o d

\* data.append(entry)
AppendEntry(d, e) == Append(d, e)

\* "parameters": {"id": pid, "pos": pos.tolist(), "cluster": int(lbl)}
Params(pid, pos, lbl) == [id |-> pid, pos |-> pos, cluster |-> lbl]

\* Outcomes of one requests.post(..., timeout=10)
PostOutcomes == {"ok", "http_error", "conn_error", "timeout_applied", "timeout_lost"}

\* requests.post raises on connection errors and timeouts; an HTTP error
\* response is returned, and the code does not look at it.
PostRaises(o) == o \in {"conn_error", "timeout_applied", "timeout_lost"}

\* The transaction was committed by the server (a timed-out request may
\* have been committed before the reply was lost).
Committed(o) == o \in {"ok", "timeout_applied"}

\* Mutant: the write wrapped in try/except that swallows the exception.
RunStatusSwallowed(writeOk) == "done"

\* An exception inside `with open(...) as f: json.dump(data, f)` propagates.
RunStatus(writeOk) == IF writeOk THEN "done" ELSE "error"

\* ------------------------------------------------------------------ Init
Init ==
  /\ pc = "start"
  /\ points = << >>
  /\ ids = << >>
  /\ vecs = << >>
  /\ coords = << >>
  /\ labels = << >>
  /\ data = << >>
  /\ i = 1
  /\ posts = << >>
  /\ outcomes = << >>
  /\ graph = MainGraph
  /\ file0 \in {NoFile, OldFile}
  /\ file = file0
  /\ failedStage = "none"
  /\ stdout = << >>
  /\ invoked = {}
  /\ sinkRec = Params(1, <<1, 2, 3>>, 0)
  /\ sinkHist = << >>
  /\ sinkCount = 0

\* lines 21-27: scroll, empty check, ids and vecs
Fetch ==
  /\ pc = "start"
  /\ \/ /\ pc' = "error"
        /\ failedStage' = "fetch"
        /\ UNCHANGED <<points, ids, vecs, stdout>>
     \/ \E pts \in PointSeqs :
          /\ points' = pts
          /\ failedStage' = failedStage
          /\ IF NoData(pts)
             THEN /\ stdout' = Append(stdout, "No embeddings found")
                  /\ pc' = "nodata"
                  /\ UNCHANGED <<ids, vecs>>
             ELSE /\ ids' = [k \in DOMAIN pts |-> pts[k].id]
                  /\ vecs' = [k \in DOMAIN pts |-> pts[k].vector]
                  /\ pc' = "project"
                  /\ stdout' = stdout
  /\ UNCHANGED <<coords, labels, data, i, posts, outcomes, graph, file, file0,
                 invoked, sinkVars>>

\* lines 29-30: PCA
Project ==
  /\ pc = "project"
  /\ invoked' = invoked \cup {"pca"}
  /\ IF PCAFails(vecs)
     THEN /\ pc' = "error"
          /\ failedStage' = "project"
          /\ coords' = coords
     ELSE /\ \E c \in [1..Len(vecs) -> Positions] : coords' = c
          /\ pc' = "cluster"
          /\ failedStage' = failedStage
  /\ UNCHANGED <<points, ids, vecs, labels, data, i, posts, outcomes, graph,
                 file, file0, stdout, sinkVars>>

\* lines 31-32: DBSCAN (raises when eps or min_samples is not positive)
Cluster ==
  /\ pc = "cluster"
  /\ invoked' = invoked \cup {"dbscan"}
  /\ \/ /\ pc' = "error"
        /\ failedStage' = "cluster"
        /\ labels' = labels
     \/ /\ \E l \in [1..Len(coords) -> Labels] : labels' = l
        /\ pc' = "loop"
        /\ failedStage' = failedStage
  /\ UNCHANGED <<points, ids, vecs, coords, data, i, posts, outcomes, graph,
                 file, file0, stdout, sinkVars>>

\* lines 35-55: one iteration of the for loop
LoopIter ==
  /\ pc = "loop"
  /\ i <= ZipLen(ids, coords, labels)
  /\ data' = AppendEntry(data, Entry(ids[i], coords[i], labels[i]))
  /\ invoked' = invoked \cup {"post"}
  /\ \E o \in PostOutcomes :
       /\ posts' = Append(posts, Params(ids[i], coords[i], labels[i]))
       /\ outcomes' = Append(outcomes, o)
       /\ graph' = IF Committed(o)
                   THEN GraphUpdate(graph, Params(ids[i], coords[i], labels[i]))
                   ELSE graph
       /\ IF PostRaises(o)
          THEN /\ pc' = "error"
               /\ failedStage' = "graph"
          ELSE /\ pc' = pc
               /\ failedStage' = failedStage
  /\ i' = i + 1
  /\ UNCHANGED <<points, ids, vecs, coords, labels, file, file0, stdout, sinkVars>>

\* lines 57-58: open the output file and dump data
WriteSnapshot ==
  /\ pc = "loop"
  /\ i > ZipLen(ids, coords, labels)
  /\ LET text == JsonDump(data)
     IN \/ \* open() raises: the file is not touched
           /\ file' = file
           /\ invoked' = invoked
           /\ pc' = RunStatus(FALSE)
           /\ failedStage' = "snapshot"
        \/ \* an I/O error after k lexemes were written
           \E k \in 0..(Len(text) - 1) :
             /\ file' = [exists |-> TRUE, content |-> SubSeq(text, 1, k)]
             /\ invoked' = invoked \cup {"open"}
             /\ pc' = RunStatus(FALSE)
             /\ failedStage' = "snapshot"
        \/ /\ file' = [exists |-> TRUE, content |-> text]
           /\ invoked' = invoked \cup {"open"}
           /\ pc' = RunStatus(TRUE)
           /\ failedStage' = failedStage
  /\ UNCHANGED <<points, ids, vecs, coords, labels, data, i, posts, outcomes,
                 graph, file0, stdout, sinkVars>>

Next == Fetch \/ Project \/ Cluster \/ LoopIter \/ WriteSnapshot

Spec == Init /\ [][Next]_vars

\* ---------------------------------------------------------------------
\* The loop and the snapshot write on arbitrary input sequences: the three
\* sequences handed to zip are drawn independently, lengths included.
AsmInit ==
  /\ pc = "loop"
  /\ points = << >>
  /\ \E a \in 0..MaxPoints : ids = [k \in 1..a |-> k]
  /\ vecs = << >>
  /\ \E b \in 0..MaxPoints : coords = [k \in 1..b |-> <<1, 2, 3>>]
  /\ \E c \in 0..MaxPoints : labels = [k \in 1..c |-> 0]
  /\ data = << >>
  /\ i = 1
  /\ posts = << >>
  /\ outcomes = << >>
  /\ graph = MainGraph
  /\ file0 = OldFile
  /\ file = file0
  /\ failedStage = "none"
  /\ stdout = << >>
  /\ invoked = {"pca", "dbscan"}
  /\ sinkRec = Params(1, <<1, 2, 3>>, 0)
  /\ sinkHist = << >>
  /\ sinkCount = 0

AsmNext == LoopIter \/ WriteSnapshot

AsmSpec == AsmInit /\ [][AsmNext]_vars

\* ---------------------------------------------------------------------
\* The graph update on its own: one record applied repeatedly to a graph.
Nodes ==
  [label : {"Impression", "Other"}, uuid : 1..2,
   embedding3d : {UnsetProp, <<1, 2, 3>>}, cluster : {UnsetProp, <<0>>},
   name : {0}]

SinkGraphs == [1..MaxNodes -> Nodes]

SinkRecords == {Params(id, pos, lbl) : id \in 1..3, pos \in Positions, lbl \in Labels}

SinkInit ==
  /\ pc = "sink"
  /\ points = << >>
  /\ ids = << >>
  /\ vecs = << >>
  /\ coords = << >>
  /\ labels = << >>
  /\ data = << >>
  /\ i = 1
  /\ posts = << >>
  /\ outcomes = << >>
  /\ graph \in SinkGraphs
  /\ file0 = NoFile
  /\ file = file0
  /\ failedStage = "none"
  /\ stdout = << >>
  /\ invoked = {}
  /\ sinkRec \in SinkRecords
  /\ sinkHist = << >>
  /\ sinkCount = 0

\* One committed transaction of the statement built at lines 38-49.
SinkApply ==
  /\ pc = "sink"
  /\ sinkCount < MaxApply
  /\ sinkHist' = Append(sinkHist, graph)
  /\ graph' = GraphUpdate(graph, sinkRec)
  /\ sinkCount' = sinkCount + 1
  /\ UNCHANGED <<pc, points, ids, vecs, coords, labels, data, i, posts, outcomes,
                 file, file0, failedStage, stdout, invoked, sinkRec>>

SinkNext == SinkApply

SinkSpec == SinkInit /\ [][SinkNext]_vars

\* =====================================================================
\* Properties
\* =====================================================================
Terminated == pc \in {"nodata", "done", "error"}

CompleteFile(d) == [exists |-> TRUE, content |-> JsonDump(d)]

\* C1: per-record failure isolation: when the graph write for record k fails
\* (connection error, server failure or timeout) and k is not the last record,
\* the write for record k+1 is still attempted, and the writes committed for
\* earlier records stay in the graph.
C1_FailureIsolation ==
  Terminated =>
    /\ \A k \in 1..Len(outcomes) :
         (outcomes[k] # "ok" /\ k < ZipLen(ids, coords, labels))
           => Len(outcomes) >= k + 1
    /\ \A k \in 1..Len(outcomes) :
         (Committed(outcomes[k]) /\ posts[k].id \in DOMAIN graph)
           => graph[posts[k].id].embedding3d = posts[k].pos

\* C2: a graph-write failure never aborts the run: a run with a non-empty
\* batch whose fetch, projection and clustering succeeded (and whose file
\* write did not fail) ends normally with the snapshot written, whatever the
\* outcomes of the graph writes were.
C2_GraphFailureNeverAborts ==
  (/\ Terminated
   /\ Len(points) > 0
   /\ failedStage \notin {"fetch", "project", "cluster", "snapshot"})
    => (pc = "done" /\ file = CompleteFile(data))

\* C3: when the vector store returns zero points the run prints the "no data"
\* message and exits normally, and PCA, DBSCAN, the graph writes and the
\* snapshot write are never invoked: no POST is issued and the output file is
\* neither created nor overwritten.
C3_EmptyInput ==
  (pc # "start" /\ failedStage # "fetch" /\ Len(points) = 0)
    => /\ pc = "nodata"
       /\ failedStage = "none"
       /\ stdout = <<"No embeddings found">>
       /\ invoked = {}
       /\ posts = << >>
       /\ data = << >>
       /\ graph = MainGraph
       /\ file = file0

C3_Witness == pc = "nodata" /\ Len(points) = 0 /\ file0 = OldFile

\* C4: graph writes are issued in the order of the assembled records, which
\* is the order of the fetched points, and in a completed run the k-th record
\* read back from the snapshot file has the id, position and cluster of the
\* k-th graph write issued.
C4_SameOrder ==
  /\ Len(posts) = Len(outcomes)
  /\ Len(posts) <= Len(points)
  /\ \A k \in 1..Len(posts) :
       /\ posts[k] = Params(ids[k], coords[k], labels[k])
       /\ posts[k].id = points[k].id
  /\ pc = "done" =>
       LET r == JsonLoad(file.content)
       IN /\ r.ok
          /\ Len(r.val) = Len(posts)
          /\ \A k \in 1..Len(posts) :
               /\ r.val[k].uuid = posts[k].id
               /\ r.val[k].pos = posts[k].pos
               /\ r.val[k].cluster = posts[k].cluster

C4_Witness ==
  /\ pc = "done"
  /\ Len(posts) >= 3
  /\ posts[1].pos # posts[2].pos
  /\ posts[2].cluster # posts[3].cluster

\* C5: a failure before the loop aborts the run with no partial output: when
\* the fetch fails, or the projection fails (in particular for a batch of
\* fewer than 3 points), no graph write is issued and the output file is not
\* touched.
C5_AbortBeforeAssembler ==
  /\ failedStage \in {"fetch", "project"} =>
       /\ pc = "error"
       /\ posts = << >>
       /\ "post" \notin invoked
       /\ "open" \notin invoked
       /\ graph = MainGraph
       /\ file = file0
  /\ (pc \notin {"start", "project"} /\ Len(points) \in 1..(NComponents - 1))
       => failedStage = "project"

C5_Witness ==
  /\ pc = "error"
  /\ failedStage = "project"
  /\ Len(points) = NComponents - 1
  /\ \A k \in DOMAIN vecs : Len(vecs[k]) = NComponents
  /\ file0 = OldFile

\* C6: the snapshot write is all-or-nothing for the caller: a run that ends
\* normally after the write leaves exactly the complete text of its records
\* in the file (in place of any earlier content), and whenever the file holds
\* anything else than its earlier content or that complete text, the run has
\* ended with the exception of the file write.
C6_SnapshotAllOrNothing ==
  /\ pc = "done" =>
       /\ file = CompleteFile(data)
       /\ JsonLoad(file.content).ok
  /\ (file # file0 /\ file # CompleteFile(data)) =>
       (pc = "error" /\ failedStage = "snapshot")
  /\ (pc \in {"nodata", "done"}) => (file = file0 \/ file = CompleteFile(data))

C6_Witness ==
  /\ pc = "error"
  /\ failedStage = "snapshot"
  /\ file0 = OldFile
  /\ file.exists
  /\ Len(file.content) > 1
  /\ Len(file.content) < Len(JsonDump(data))
  /\ ~JsonLoad(file.content).ok

\* C7: applying the graph update for a record twice leaves the whole graph in
\* the state one application produced.
C7_Idempotent ==
  sinkCount >= 2 => graph = sinkHist[2]

C7_Witness ==
  /\ sinkCount = 2
  /\ sinkHist[1] # sinkHist[2]
  /\ \E k \in DOMAIN sinkHist[1] :
       /\ Matches(sinkHist[1][k], sinkRec.id)
       /\ sinkHist[1][k].embedding3d # UnsetProp
       /\ sinkHist[1][k].embedding3d # sinkRec.pos

C9_Frame ==
  sinkCount >= 1 =>
    LET before == sinkHist[sinkCount]
    IN /\ DOMAIN graph = DOMAIN before
       /\ \A k \in DOMAIN before :
            /\ graph[k].label = before[k].label
            /\ graph[k].uuid = before[k].uuid
            /\ graph[k].name = before[k].name
            /\ before[k].uuid # sinkRec.id => graph[k] = before[k]
            /\ before[k].label # "Impression" => graph[k] = before[k]
       /\ (\A k \in DOMAIN before : before[k].uuid # sinkRec.id) => graph = before

C9_Witness ==
  /\ sinkCount = 1
  /\ \E k \in DOMAIN graph : graph[k] # sinkHist[1][k]
  /\ \E k \in DOMAIN graph :
       /\ graph[k] = sinkHist[1][k]
       /\ graph[k].uuid # sinkRec.id
       /\ graph[k].embedding3d # UnsetProp

\* C10: reading the written snapshot back yields the records that were
\* written, one file record per input record and in the same order, each with
\* a uuid, a pos of 3 numbers and an integer cluster.
C10_RoundTrip ==
  pc = "done" =>
    LET r == JsonLoad(file.content)
    IN /\ r.ok
       /\ Len(r.val) = Len(data)
       /\ r.val = data
       /\ {<<r.val[k].uuid, r.val[k].pos, r.val[k].cluster>> : k \in 1..Len(r.val)}
            = {<<ids[k], coords[k], labels[k]>> : k \in 1..Len(ids)}
       /\ \A k \in 1..Len(r.val) :
            /\ Len(r.val[k].pos) = NComponents
            /\ r.val[k].cluster \in Int

C10_Witness ==
  /\ pc = "done"
  /\ Len(data) >= 3
  /\ \E k \in 1..Len(data) : data[k].cluster = NoiseLabel
  /\ \E k \in 1..Len(data) : data[k].cluster # NoiseLabel
  /\ \E a, b \in 1..Len(data) : data[a].pos # data[b].pos

====
